---------------------------- MODULE Spec2Model ----------------------------
(***************************************************************************)
(* Model of axiprop/utils.py: the spectral-to-temporal reconstruction      *)
(* kernels, the single-time evaluator get_E_r, the AxipropLaser profile,   *)
(* the module's numba import/fallback and the WarpX binary file writers.   *)
(*                                                                         *)
(* Numbers.  Complex values are Gaussian integers <<re, im>>.  Wavenumbers *)
(* and times are integers in units chosen so that kz*c*t is an integer     *)
(* number of quarter turns (pi/2); exp(1j*kz*c*t) is then exactly one of   *)
(* 1, i, -1, -i and every kernel's arithmetic is exact.  A quotient of the  *)
(* code (get_E_r's division) is kept as numerator and denominator.         *)
(* Arrays are sequences, indexed from 1: Python's index i is i+1 here.     *)
(***************************************************************************)
EXTENDS Integers, Sequences, FiniteSets, TLC

VARIABLES
    kernel,     \* which function of utils.py the caller runs
    u,          \* frequency-domain field: [Nkz][Nr] or [Nkz][Nx][Ny]
    kz,         \* wavenumber array
    t,          \* requested time samples
    Nr_loc,     \* get_temporal_1d's radial sub-range
    u_t,        \* the caller's output array (or get_temporal_3d's result)
    utRank,     \* number of axes of u_t
    u_t0,       \* contents of u_t before the first call
    kfac,       \* a real constant k
    u_tk,       \* output array of the same calls made on k*u
    outcome,    \* how the last call on u ended
    outcomek,   \* how the last call on k*u ended
    ncalls,     \* calls made so far
    er,         \* get_E_r's result, [num, den]
    numba,      \* the installed numba: "missing", "ok" or "broken"
    load,       \* position of the module's import
    prange,     \* what the name prange is bound to after import
    wpc,        \* per time index: position of that loop iteration
    wtmp,       \* per time index: value read by the pending `+=`
    wlog,       \* per slot of u_t: the time indices that wrote it
    las,        \* the AxipropLaser object
    qry,        \* the last E_field query
    ret,        \* the last E_field result
    fin,        \* arguments of a file writer
    file,       \* what has been written to the file
    ferr        \* how the writer ended

kvars == <<kernel, u, kz, t, Nr_loc, u_t, utRank, u_t0, kfac, u_tk,
           outcome, outcomek, ncalls, er>>
pvars == <<numba, load, prange, wpc, wtmp, wlog>>
lvars == <<las, qry, ret>>
fvars == <<fin, file, ferr>>
vars == <<kvars, pvars, lvars, fvars>>

----------------------------------------------------------------------------
(* Bounds of the model *)
MaxNkz == 2
MaxNr == 2
MaxNt == 2
MaxNy == 3
MaxCalls == 2

----------------------------------------------------------------------------
(* Complex arithmetic *)

CMul(a, b) == <<a[1] * b[1] - a[2] * b[2], a[1] * b[2] + a[2] * b[1]>>

Re(a) == a[1]

\* exp(1j * q * pi/2)
Cis(q) ==
    CASE q % 4 = 0 -> <<1, 0>>
      [] q % 4 = 1 -> <<0, 1>>
      [] q % 4 = 2 -> <<0 - 1, 0>>
      [] q % 4 = 3 -> <<0, 0 - 1>>

\* FFT_factor = np.exp(1j * kz * c * t[it])
FFT_factor(kzs, tk) == [m \in 1..Len(kzs) |-> Cis(kzs[m] * tk)]

\* numpy's broadcast of two 1-D lengths; -1 when they are incompatible
Bcast(n, m) ==
    IF n = m THEN n
    ELSE IF n = 1 THEN m
    ELSE IF m = 1 THEN n
    ELSE 0 - 1

At(s, i) == IF Len(s) = 1 THEN s[1] ELSE s[i]

RECURSIVE SumTo(_, _)
SumTo(f, n) == IF n = 0 THEN 0 ELSE f[n] + SumTo(f, n - 1)

\* np.real(col * F).sum()
RealSum(col, F) ==
    LET n == Bcast(Len(col), Len(F))
    IN  SumTo([i \in 1..n |-> Re(CMul(At(col, i), At(F, i)))], n)

\* u[:, ir]
Col(uu, ir) == [m \in 1..Len(uu) |-> uu[m][ir]]

\* u[:, ix, iy]
Col3(uu, ix, iy) == [m \in 1..Len(uu) |-> uu[m][ix][iy]]

\* Python's index i into an axis of length n, as a 1-based position
\* (negative indices count from the end); 0 when out of range
PyIdx(i, n) ==
    LET j == IF i < 0 THEN i + n ELSE i
    IN  IF j >= 0 /\ j < n THEN j + 1 ELSE 0

Min2(a, b) == IF a < b THEN a ELSE b

\* What an out-of-range index does: the pure-Python fallback checks bounds,
\* numba's compiled code does not
OutOfRange(checked) == IF checked THEN "IndexError" ELSE "undefined"

----------------------------------------------------------------------------
(* Reconstruction kernels: each maps its arguments to how the call ends and
   to the contents of u_t afterwards *)

Result(o, a) == [outcome |-> o, u_t |-> a]

LastAxis(a, rank) == IF rank = 1 THEN Len(a) ELSE Len(a[1])

\* the value one `u_t[it] += ...` adds, summed over the inner loop
Acc1d(uu, kzs, tk, nloc) ==
    SumTo([ir \in 1..nloc |-> RealSum(Col(uu, ir), FFT_factor(kzs, tk))], nloc)

get_temporal_1d(uu, ut, rank, ts, kzs, nloc, checked) ==
    LET Nkz == Len(uu)
        Nr == Len(uu[1])
        Nt == Len(ts)
        rows == Min2(Nt, Len(ut))
        add(it) == Acc1d(uu, kzs, ts[it], nloc)
        written == [it \in 1..Len(ut) |->
                      IF it > rows THEN ut[it]
                      ELSE IF rank = 1 THEN ut[it] + add(it)
                      ELSE [j \in 1..Len(ut[it]) |-> ut[it][j] + add(it)]]
    IN  IF LastAxis(ut, rank) # Nr THEN Result("AssertionError", ut)
        ELSE IF nloc = 0 THEN Result("ok", ut)
        ELSE IF Bcast(Nkz, Len(kzs)) < 0 THEN Result("ValueError", ut)
        ELSE IF Len(ut) < Nt THEN Result(OutOfRange(checked), written)
        ELSE Result("ok", written)

\* a mutant of get_temporal_radial: `+=` in place of `=`
get_temporal_radial_accumulating(uu, ut, ts, kzs) ==
    LET Nkz == Len(uu)
        Nr == Len(uu[1])
        Nt == Len(ts)
    IN  IF Len(ut[1]) # Nr THEN Result("AssertionError", ut)
        ELSE IF Len(ut) # Nt THEN Result("AssertionError", ut)
        ELSE IF Bcast(Nkz, Len(kzs)) < 0 THEN Result("ValueError", ut)
        ELSE Result("ok",
                 [it \in 1..Nt |-> [ir \in 1..Nr |->
                     ut[it][ir] + RealSum(Col(uu, ir), FFT_factor(kzs, ts[it]))]])

get_temporal_radial(uu, ut, ts, kzs) ==
    LET Nkz == Len(uu)
        Nr == Len(uu[1])
        Nt == Len(ts)
    IN  IF Len(ut[1]) # Nr THEN Result("AssertionError", ut)
        ELSE IF Len(ut) # Nt THEN Result("AssertionError", ut)
        ELSE IF Bcast(Nkz, Len(kzs)) < 0 THEN Result("ValueError", ut)
        ELSE Result("ok",
                 [it \in 1..Nt |-> [ir \in 1..Nr |->
                     RealSum(Col(uu, ir), FFT_factor(kzs, ts[it]))]])

\* a mutant of SliceIndex: the row Ny//2
SliceIndexUpper(Ny) == Ny \div 2

\* the transverse row get_temporal_slice2d reads: Ny//2-1
SliceIndex(Ny) == (Ny \div 2) - 1

get_temporal_slice2d(uu, ut, ts, kzs, checked) ==
    LET Nkz == Len(uu)
        Nx == Len(uu[1])
        Ny == Len(uu[1][1])
        Nt == Len(ts)
        rows == Min2(Nt, Len(ut))
        iy == PyIdx(SliceIndex(Ny), Ny)
        written == [it \in 1..Len(ut) |->
                      IF it > rows THEN ut[it]
                      ELSE [ix \in 1..Nx |->
                              RealSum(Col3(uu, ix, iy), FFT_factor(kzs, ts[it]))]]
    IN  IF Len(ut[1]) # Nx THEN Result("AssertionError", ut)
        ELSE IF iy = 0 THEN Result(OutOfRange(checked), ut)
        ELSE IF Bcast(Nkz, Len(kzs)) < 0 THEN Result("ValueError", ut)
        ELSE IF Len(ut) < Nt THEN Result(OutOfRange(checked), written)
        ELSE Result("ok", written)

\* a mutant of get_temporal_3d: np.ones for np.empty and `+=` for `=`
get_temporal_3d_onto_ones(uu, ts, kzs) ==
    LET Nkz == Len(uu)
        Nx == Len(uu[1])
        Ny == Len(uu[1][1])
        Nt == Len(ts)
    IN  IF Bcast(Nkz, Len(kzs)) < 0 THEN Result("ValueError", <<>>)
        ELSE Result("ok",
                 [it \in 1..Nt |-> [ix \in 1..Nx |-> [iy \in 1..Ny |->
                     1 + RealSum(Col3(uu, ix, iy), FFT_factor(kzs, ts[it]))]]])

get_temporal_3d(uu, ts, kzs) ==
    LET Nkz == Len(uu)
        Nx == Len(uu[1])
        Ny == Len(uu[1][1])
        Nt == Len(ts)
    IN  IF Bcast(Nkz, Len(kzs)) < 0 THEN Result("ValueError", <<>>)
        ELSE Result("ok",
                 [it \in 1..Nt |-> [ix \in 1..Nx |-> [iy \in 1..Ny |->
                     RealSum(Col3(uu, ix, iy), FFT_factor(kzs, ts[it]))]]])

\* FFT_factor.size in get_E_r: the factor is broadcast to u's full shape
FFT_size(Nm, Nr) == Nm * Nr

\* get_E_r(t, u, kz): the quotient is kept as num[ir] / den
get_E_r(tk, uu, kzs) ==
    LET Nr == Len(uu[1])
        Nm == Bcast(Len(uu), Len(kzs))
    IN  IF Nm < 0 THEN [outcome |-> "ValueError", num |-> <<>>, den |-> 1]
        ELSE [outcome |-> "ok",
              num |-> [ir \in 1..Nr |-> RealSum(Col(uu, ir), FFT_factor(kzs, tk))],
              den |-> FFT_size(Nm, Nr)]

----------------------------------------------------------------------------
(* Inputs of the model: small families of arrays *)

USeeds == {0, 1}
UTSeeds == {0, 1}
K0s == {0, 1}
T0s == {0, 1}
Ks == {0 - 1, 2}

Entry(s, m, a, b) ==
    <<((s + m + 2 * a + 3 * b) % 4) - 1, ((s * m + a + b) % 3) - 1>>

Field2(s, Nkz, Nr) == [m \in 1..Nkz |-> [r \in 1..Nr |-> Entry(s, m, r, 0)]]

Field3(s, Nkz, Nx, Ny) ==
    [m \in 1..Nkz |-> [x \in 1..Nx |-> [y \in 1..Ny |-> Entry(s, m, x, y)]]]

\* a uniform wavenumber axis and a uniform time axis
KzAxis(k0, n) == [m \in 1..n |-> k0 + (m - 1)]
TAxis(t0, n) == [i \in 1..n |-> t0 + (i - 1)]

Out1(s, R) == [i \in 1..R |-> s * i]
Out2(s, R, C) == [i \in 1..R |-> [j \in 1..C |-> s * (i + 2 * j)]]

\* k * u
Scale2(k, uu) ==
    [m \in 1..Len(uu) |-> [r \in 1..Len(uu[m]) |->
        <<k * uu[m][r][1], k * uu[m][r][2]>>]]

Scale3(k, uu) ==
    [m \in 1..Len(uu) |-> [x \in 1..Len(uu[m]) |-> [y \in 1..Len(uu[m][x]) |->
        <<k * uu[m][x][y][1], k * uu[m][x][y][2]>>]]]

NoEr == [outcome |-> "none", num |-> <<>>, den |-> 1]

KernelIdle ==
    /\ kernel = "none" /\ u = <<>> /\ kz = <<>> /\ t = <<>> /\ Nr_loc = 0
    /\ u_t = <<>> /\ utRank = 0 /\ u_t0 = <<>> /\ kfac = 1 /\ u_tk = <<>>
    /\ outcome = "none" /\ outcomek = "none" /\ ncalls = 0 /\ er = NoEr

ParIdle ==
    /\ numba = "ok" /\ load = "done" /\ prange = "prange"
    /\ wpc = <<>> /\ wtmp = <<>> /\ wlog = <<>>

LaserIdle == las = [made |-> FALSE] /\ qry = <<>> /\ ret = <<>>

FileIdle == fin = <<>> /\ file = <<>> /\ ferr = "none"

----------------------------------------------------------------------------
(* Sequential calls of the kernels on caller-held arrays *)

InitInputs2D(name, MaxT) ==
    \E Nkz \in 1..MaxNkz, Nr \in 1..MaxNr, Nt \in 1..MaxT,
       Lkz \in 1..(MaxNkz + 1), s \in USeeds, k0 \in K0s, t0 \in T0s :
        /\ kernel = name
        /\ u = Field2(s, Nkz, Nr)
        /\ kz = KzAxis(k0, Lkz)
        /\ t = TAxis(t0, Nt)

InitInputs3D(name) ==
    \E Nkz \in 1..MaxNkz, Nx \in 1..MaxNr, Ny \in 1..MaxNy, Nt \in 1..MaxNt,
       Lkz \in 1..(MaxNkz + 1), s \in USeeds, k0 \in K0s, t0 \in T0s :
        /\ kernel = name
        /\ u = Field3(s, Nkz, Nx, Ny)
        /\ kz = KzAxis(k0, Lkz)
        /\ t = TAxis(t0, Nt)

InitOut1 == \E R \in 1..MaxNt, s \in UTSeeds : u_t = Out1(s, R) /\ utRank = 1

InitOut2 ==
    \E R \in 1..MaxNt, C \in 1..MaxNr, s \in UTSeeds :
        u_t = Out2(s, R, C) /\ utRank = 2

InitKernels ==
    /\ \/ InitInputs2D("1d", MaxNt) /\ (InitOut1 \/ InitOut2)
          /\ Nr_loc \in 0..Len(u[1])
       \/ InitInputs2D("radial", MaxNt) /\ InitOut2 /\ Nr_loc = 0
       \/ InitInputs3D("slice2d") /\ InitOut2 /\ Nr_loc = 0
       \/ InitInputs3D("3d") /\ u_t = <<>> /\ utRank = 0 /\ Nr_loc = 0
       \/ InitInputs2D("E_r", 1) /\ u_t = <<>> /\ utRank = 0 /\ Nr_loc = 0
    /\ u_t0 = u_t
    /\ u_tk = u_t
    /\ kfac \in Ks
    /\ outcome = "none" /\ outcomek = "none" /\ ncalls = 0 /\ er = NoEr
    /\ ParIdle /\ LaserIdle /\ FileIdle

CanCall(name) ==
    /\ kernel = name
    /\ ncalls < MaxCalls
    /\ outcome \in {"none", "ok"}

Returned(r, rk) ==
    /\ u_t' = r.u_t
    /\ outcome' = r.outcome
    /\ u_tk' = rk.u_t
    /\ outcomek' = rk.outcome
    /\ ncalls' = ncalls + 1

Call1d ==
    /\ CanCall("1d")
    /\ \E checked \in BOOLEAN :
        Returned(get_temporal_1d(u, u_t, utRank, t, kz, Nr_loc, checked),
                 get_temporal_1d(Scale2(kfac, u), u_tk, utRank, t, kz, Nr_loc,
                                 checked))
    /\ UNCHANGED <<kernel, u, kz, t, Nr_loc, utRank, u_t0, kfac, er>>
    /\ UNCHANGED <<pvars, lvars, fvars>>

CallRadial ==
    /\ CanCall("radial")
    /\ Returned(get_temporal_radial(u, u_t, t, kz),
                get_temporal_radial(Scale2(kfac, u), u_tk, t, kz))
    /\ UNCHANGED <<kernel, u, kz, t, Nr_loc, utRank, u_t0, kfac, er>>
    /\ UNCHANGED <<pvars, lvars, fvars>>

CallSlice2d ==
    /\ CanCall("slice2d")
    /\ \E checked \in BOOLEAN :
        Returned(get_temporal_slice2d(u, u_t, t, kz, checked),
                 get_temporal_slice2d(Scale3(kfac, u), u_tk, t, kz, checked))
    /\ UNCHANGED <<kernel, u, kz, t, Nr_loc, utRank, u_t0, kfac, er>>
    /\ UNCHANGED <<pvars, lvars, fvars>>

Call3d ==
    /\ CanCall("3d")
    /\ Returned(get_temporal_3d(u, t, kz), get_temporal_3d(Scale3(kfac, u), t, kz))
    /\ utRank' = IF outcome' = "ok" THEN 3 ELSE utRank
    /\ UNCHANGED <<kernel, u, kz, t, Nr_loc, u_t0, kfac, er>>
    /\ UNCHANGED <<pvars, lvars, fvars>>

CallEr ==
    /\ CanCall("E_r")
    /\ er' = get_E_r(t[1], u, kz)
    /\ outcome' = er'.outcome
    /\ ncalls' = ncalls + 1
    /\ UNCHANGED <<kernel, u, kz, t, Nr_loc, u_t, utRank, u_t0, kfac, u_tk,
                   outcomek>>
    /\ UNCHANGED <<pvars, lvars, fvars>>

NextKernels == Call1d \/ CallRadial \/ CallSlice2d \/ Call3d \/ CallEr

SpecKernels == InitKernels /\ [][NextKernels]_vars

----------------------------------------------------------------------------
(* Properties of the sequential kernel calls *)

Called == ncalls >= 1

Nkz_u == Len(u)

\* the synthesis of one output entry: sum over modes of Re(u[:,ir]*exp(i kz c t))
Synth2(ir, it) == RealSum(Col(u, ir), FFT_factor(kz, t[it]))

KzMatches == Len(kz) = Len(u)

\* C1: get_E_r(t0,u,kz)[ir] = get_temporal_radial(u,u_t,[t0],kz)[0,ir] / Nkz
C1_EvaluatorIsModeMean ==
    (kernel = "E_r" /\ Called /\ KzMatches) =>
        /\ er.outcome = "ok"
        /\ LET Nr == Len(u[1])
               rad == get_temporal_radial(u, Out2(0, 1, Nr), t, kz).u_t
           IN  \A ir \in 1..Nr : er.num[ir] * Nkz_u = rad[1][ir] * er.den

\* C2: for u_t of shape [Nt] and Nr_loc <= Nr the 1-D kernel completes and
\* leaves u_t[it] = old u_t[it] + sum over ir < Nr_loc and modes
C2_Accumulate1dAnyShape ==
    (kernel = "1d" /\ ncalls = 1 /\ utRank = 1 /\ Len(u_t0) = Len(t)
       /\ KzMatches /\ Nr_loc <= Len(u[1])) =>
        /\ outcome = "ok"
        /\ \A it \in 1..Len(t) :
               u_t[it] = u_t0[it] + Acc1d(u, kz, t[it], Nr_loc)

\* the axis-length invariants of a call
ShapeViolation ==
    \/ ~KzMatches
    \/ kernel = "1d" /\ utRank = 1 /\ Len(u_t0) # Len(t)
    \/ kernel \in {"radial", "slice2d"}
         /\ (Len(u_t0) # Len(t) \/ Len(u_t0[1]) # Len(u[1]))

\* C4: a call that violates an axis-length invariant fails on a precondition
\* check and writes nothing
C4_ShapeMismatchFails ==
    (kernel \in {"1d", "radial", "slice2d", "3d"} /\ ncalls = 1
       /\ (kernel = "1d" => utRank = 1) /\ ShapeViolation) =>
        /\ outcome = "AssertionError"
        /\ u_t = u_t0

ScaleOut(k, a, rank) ==
    CASE rank = 1 -> [i \in 1..Len(a) |-> k * a[i]]
      [] rank = 2 -> [i \in 1..Len(a) |-> [j \in 1..Len(a[i]) |-> k * a[i][j]]]
      [] rank = 3 -> [i \in 1..Len(a) |-> [j \in 1..Len(a[i]) |->
                        [l \in 1..Len(a[i][j]) |-> k * a[i][j][l]]]]

\* the shapes the kernels document
ValidShapes ==
    /\ KzMatches
    /\ kernel = "1d" => utRank = 1 /\ Len(u_t0) = Len(t)
    /\ kernel \in {"radial", "slice2d"} =>
           Len(u_t0) = Len(t) /\ Len(u_t0[1]) = Len(u[1])

\* C8 as stated: every kernel's output on k*u is k times its output on u
C8_Linearity ==
    (kernel \in {"1d", "radial", "slice2d", "3d"} /\ Called /\ ValidShapes
       /\ outcome = "ok") =>
        /\ outcomek = "ok"
        /\ u_tk = ScaleOut(kfac, u_t, utRank)

\* C8 amended: the overwriting kernels are linear in u; the 1-D kernel's
\* added contribution (u_t after minus u_t before) is linear in u
C8_LinearityAmended ==
    (kernel \in {"1d", "radial", "slice2d", "3d"} /\ Called /\ ValidShapes) =>
        /\ outcomek = outcome
        /\ (kernel # "1d" /\ outcome = "ok") =>
               u_tk = ScaleOut(kfac, u_t, utRank)
        /\ kernel = "1d" =>
               \A it \in 1..Len(u_t0) :
                   u_tk[it] - u_t0[it] = kfac * (u_t[it] - u_t0[it])

C8_Witness ==
    /\ kernel = "1d" /\ ncalls = 2 /\ ValidShapes /\ outcome = "ok"
    /\ \E it \in 1..Len(u_t0) : u_t0[it] # 0 /\ u_t[it] # u_t0[it]

\* C9: get_temporal_radial overwrites (its result does not depend on what u_t
\* held or on how often it ran); get_temporal_1d adds its sum on every call
C9_OverwriteVsAccumulate ==
    /\ (kernel = "radial" /\ Called /\ ValidShapes) =>
           /\ outcome = "ok"
           /\ \A it \in 1..Len(t) : \A ir \in 1..Len(u[1]) :
                  u_t[it][ir] = Synth2(ir, it)
    /\ (kernel = "1d" /\ Called /\ ValidShapes /\ outcome = "ok") =>
           \A it \in 1..Len(t) :
               u_t[it] = u_t0[it] + ncalls * Acc1d(u, kz, t[it], Nr_loc)

C9_Witness ==
    /\ kernel = "radial" /\ ncalls = 2 /\ ValidShapes
    /\ Len(u) > 1 /\ Len(t) > 1
    /\ \E it \in 1..Len(t) : \E ir \in 1..Len(u[1]) :
           /\ u_t0[it][ir] # 0
           /\ Synth2(ir, it) # 0
           /\ u_t[it][ir] # u_t0[it][ir]

\* u with every transverse row but `row` zeroed
MaskRows(uu, row) ==
    [m \in 1..Len(uu) |-> [x \in 1..Len(uu[m]) |-> [y \in 1..Len(uu[m][x]) |->
        IF y = row THEN uu[m][x][y] ELSE <<0, 0>>]]]

\* the 1-based position of Python's row Ny//2-1 (row -1 of a single-row
\* array is its only row)
MidRow(Ny) == IF Ny = 1 THEN 1 ELSE Ny \div 2

----------------------------------------------------------------------------
(* Import of the module (lines 9-25) and the kernels' loop over time indices,
   run by numba's prange or, in the fallback, by range *)

Out3(s, Nt, Nx, Ny) ==
    [i \in 1..Nt |-> [x \in 1..Nx |-> [y \in 1..Ny |-> s * (i + x + 2 * y)]]]

Idle(n) == [it \in 1..n |-> [pc |-> "idle", j |-> 1]]

InitPar ==
    /\ numba \in {"missing", "ok", "broken"}
    /\ load = "line10"
    /\ prange = "unbound"
    /\ \/ InitInputs2D("1d", MaxNt) /\ InitOut1 /\ Nr_loc \in 0..Len(u[1])
       \/ InitInputs2D("radial", MaxNt) /\ InitOut2 /\ Nr_loc = 0
            /\ Len(u_t) = Len(t) /\ Len(u_t[1]) = Len(u[1])
       \/ InitInputs3D("slice2d") /\ InitOut2 /\ Nr_loc = 0
            /\ Len(u_t) = Len(t) /\ Len(u_t[1]) = Len(u[1])
       \/ InitInputs3D("3d") /\ u_t = <<>> /\ utRank = 0 /\ Nr_loc = 0
    /\ Len(kz) = Len(u)
    /\ kernel = "1d" => Len(u_t) = Len(t)
    /\ u_t0 = u_t
    /\ u_tk = <<>> /\ kfac = 1
    /\ outcome = "none" /\ outcomek = "none" /\ ncalls = 0 /\ er = NoEr
    /\ wpc = Idle(Len(t))
    /\ wtmp = [it \in 1..Len(t) |-> 0]
    /\ wlog = [row \in 1..Len(t) |-> {}]
    /\ LaserIdle /\ FileIdle

\* line 10: from numba import njit, prange
Import10 ==
    /\ load = "line10"
    /\ load' = IF numba = "missing" THEN "ImportError" ELSE "try"
    /\ UNCHANGED <<kvars, numba, prange, wpc, wtmp, wlog, lvars, fvars>>

\* lines 15-17: the try body binds the parallel prange
TryNumba ==
    /\ load = "try"
    /\ numba = "ok"
    /\ prange' = "prange"
    /\ load' = "done"
    /\ UNCHANGED <<kvars, numba, wpc, wtmp, wlog, lvars, fvars>>

\* lines 18-25: the try body raised; prange = range, njit = pass-through
ExceptFallback ==
    /\ load = "try"
    /\ numba # "ok"
    /\ prange' = "range"
    /\ load' = "done"
    /\ UNCHANGED <<kvars, numba, wpc, wtmp, wlog, lvars, fvars>>

\* the kernel's assertions on entry
EntryAsserts ==
    CASE kernel = "1d" -> LastAxis(u_t, utRank) = Len(u[1])
      [] kernel = "radial" -> Len(u_t[1]) = Len(u[1]) /\ Len(u_t) = Len(t)
      [] kernel = "slice2d" -> Len(u_t[1]) = Len(u[1])
      [] kernel = "3d" -> TRUE

\* a call enters the kernel: assertions, then (3d) np.empty
KernelEntry ==
    /\ load = "done"
    /\ outcome = "none"
    /\ IF EntryAsserts
       THEN /\ outcome' = "running"
            /\ wpc' = [it \in 1..Len(t) |-> [pc |-> "start", j |-> 1]]
            /\ IF kernel = "3d"
               THEN /\ \E s \in UTSeeds :
                         u_t' = Out3(s, Len(t), Len(u[1]), Len(u[1][1]))
                    /\ utRank' = 3
               ELSE UNCHANGED <<u_t, utRank>>
       ELSE /\ outcome' = "AssertionError"
            /\ UNCHANGED <<wpc, u_t, utRank>>
    /\ UNCHANGED <<kernel, u, kz, t, Nr_loc, u_t0, kfac, u_tk, outcomek, ncalls, er>>
    /\ UNCHANGED <<numba, load, prange, wtmp, wlog, lvars, fvars>>

\* length of the loop nest inside one time iteration
InnerLen ==
    CASE kernel = "1d" -> Nr_loc
      [] kernel = "radial" -> Len(u[1])
      [] kernel = "slice2d" -> Len(u[1])
      [] kernel = "3d" -> Len(u[1]) * Len(u[1][1])

\* prange hands any unfinished index to a worker; range runs them in order
MayRun(it) ==
    /\ outcome = "running"
    /\ prange = "range" => \A i \in 1..(it - 1) : wpc[i].pc = "done"

\* a mutant of Slot: every iteration accumulates into the first row
SlotShared(it) == 1

\* the row of u_t the iteration for index it writes
Slot(it) == it

\* FFT_factor = np.exp(1j * kz * c * t[it]), then the inner loop begins
IterStart(it) ==
    /\ MayRun(it)
    /\ wpc[it].pc = "start"
    /\ wpc' = [wpc EXCEPT ![it].pc = "loop"]
    /\ UNCHANGED <<kvars, numba, load, prange, wtmp, wlog, lvars, fvars>>

Ix3(j) == ((j - 1) \div Len(u[1][1])) + 1
Iy3(j) == ((j - 1) % Len(u[1][1])) + 1

\* the value the j-th inner step of iteration it computes
StepValue(it, j) ==
    LET F == FFT_factor(kz, t[it])
    IN  CASE kernel \in {"1d", "radial"} -> RealSum(Col(u, j), F)
          [] kernel = "slice2d" ->
                 RealSum(Col3(u, j, PyIdx(SliceIndex(Len(u[1][1])), Len(u[1][1]))), F)
          [] kernel = "3d" -> RealSum(Col3(u, Ix3(j), Iy3(j)), F)

\* `u_t[it] += ...` of get_temporal_1d: the load of u_t[it]
IterRead(it) ==
    /\ MayRun(it)
    /\ kernel = "1d"
    /\ wpc[it].pc = "loop"
    /\ wpc[it].j <= InnerLen
    /\ wtmp' = [wtmp EXCEPT ![it] = u_t[Slot(it)]]
    /\ wpc' = [wpc EXCEPT ![it].pc = "add"]
    /\ UNCHANGED <<kvars, numba, load, prange, wlog, lvars, fvars>>

\* `u_t[it] += ...` of get_temporal_1d: the store
IterAdd(it) ==
    /\ MayRun(it)
    /\ wpc[it].pc = "add"
    /\ u_t' = [u_t EXCEPT ![Slot(it)] = wtmp[it] + StepValue(it, wpc[it].j)]
    /\ wlog' = [wlog EXCEPT ![Slot(it)] = @ \cup {it}]
    /\ wpc' = [wpc EXCEPT ![it] = [pc |-> "loop", j |-> @.j + 1]]
    /\ UNCHANGED <<kernel, u, kz, t, Nr_loc, utRank, u_t0, kfac, u_tk, outcome,
                   outcomek, ncalls, er>>
    /\ UNCHANGED <<numba, load, prange, wtmp, lvars, fvars>>

\* `u_t[it, ...] = ...` of the three overwriting kernels
IterWrite(it) ==
    /\ MayRun(it)
    /\ kernel # "1d"
    /\ wpc[it].pc = "loop"
    /\ wpc[it].j <= InnerLen
    /\ LET j == wpc[it].j
           v == StepValue(it, j)
       IN  u_t' = IF kernel = "3d"
                  THEN [u_t EXCEPT ![Slot(it)][Ix3(j)][Iy3(j)] = v]
                  ELSE [u_t EXCEPT ![Slot(it)][j] = v]
    /\ wlog' = [wlog EXCEPT ![Slot(it)] = @ \cup {it}]
    /\ wpc' = [wpc EXCEPT ![it].j = @ + 1]
    /\ UNCHANGED <<kernel, u, kz, t, Nr_loc, utRank, u_t0, kfac, u_tk, outcome,
                   outcomek, ncalls, er>>
    /\ UNCHANGED <<numba, load, prange, wtmp, lvars, fvars>>

\* the inner loop of iteration it is exhausted
IterEnd(it) ==
    /\ MayRun(it)
    /\ wpc[it].pc = "loop"
    /\ wpc[it].j > InnerLen
    /\ wpc' = [wpc EXCEPT ![it].pc = "done"]
    /\ UNCHANGED <<kvars, numba, load, prange, wtmp, wlog, lvars, fvars>>

\* return u_t
KernelReturn ==
    /\ outcome = "running"
    /\ \A it \in 1..Len(t) : wpc[it].pc = "done"
    /\ outcome' = "ok"
    /\ ncalls' = ncalls + 1
    /\ UNCHANGED <<kernel, u, kz, t, Nr_loc, u_t, utRank, u_t0, kfac, u_tk,
                   outcomek, er>>
    /\ UNCHANGED <<pvars, lvars, fvars>>

NextPar ==
    \/ Import10
    \/ TryNumba
    \/ ExceptFallback
    \/ KernelEntry
    \/ \E it \in 1..Len(t) : IterStart(it)
    \/ \E it \in 1..Len(t) : IterRead(it)
    \/ \E it \in 1..Len(t) : IterAdd(it)
    \/ \E it \in 1..Len(t) : IterWrite(it)
    \/ \E it \in 1..Len(t) : IterEnd(it)
    \/ KernelReturn

SpecPar == InitPar /\ [][NextPar]_vars

\* what strictly sequential execution of the kernel leaves in u_t
Sequential ==
    CASE kernel = "1d" ->
             get_temporal_1d(u, u_t0, 1, t, kz, Nr_loc, TRUE).u_t
      [] kernel = "radial" -> get_temporal_radial(u, u_t0, t, kz).u_t
      [] kernel = "slice2d" -> get_temporal_slice2d(u, u_t0, t, kz, TRUE).u_t
      [] kernel = "3d" -> get_temporal_3d(u, t, kz).u_t

\* C3: under any interleaving of the time iterations, iteration it writes only
\* row it of u_t, and the final u_t is the sequential result
C3_IterationsIndependent ==
    /\ \A row \in 1..Len(wlog) : wlog[row] \subseteq {row}
    /\ outcome = "ok" => u_t = Sequential

C3_Witness ==
    /\ prange = "prange" /\ kernel = "1d" /\ outcome = "running"
    /\ Len(t) >= 2
    /\ wpc[1].pc = "add" /\ wpc[2].pc = "add"
    /\ wlog[1] = {1} /\ wlog[2] = {2}

\* C5: without numba the module still loads (prange = range, njit a
\* pass-through); the import never ends in an import error
C5_LoadsWithoutNumba ==
    numba = "missing" => load # "ImportError"

----------------------------------------------------------------------------
(* AxipropLaser (lines 139-165) *)

\* interp1d(kind='cubic') needs at least this many samples
CubicMin == 4

RGrids == {<<0, 1, 2, 3>>, <<1, 2, 3, 4>>, <<2, 4, 5, 7>>}
A0s == {1, 2}
Thetas == {0, 1}
Offsets == {0, 1}
QueryX == {0, 3, 0 - 3, 6}
QueryY == {0, 4, 8}
QueryZ == {0, 1}
QueryT == {0, 1}

\* cos and sin of theta_pol, theta_pol = q * pi/2
Cos(q) == Cis(q)[1]
Sin(q) == Cis(q)[2]

\* __init__: E0 = a0*m_e*c**2*k0/e in units of m_e*c**2*k0/e
AxipropLaser(a0, uu, kzs, r, time_offset, theta_pol) ==
    [made |-> TRUE, u |-> uu, kz |-> kzs, r |-> r, time_offset |-> time_offset,
     E0x |-> a0 * Cos(theta_pol), E0y |-> a0 * Sin(theta_pol)]

InitLaser ==
    /\ \E Nkz \in 1..MaxNkz, s \in USeeds, k0 \in K0s, r \in RGrids,
          a0 \in A0s, th \in Thetas, off \in Offsets :
        /\ Len(r) >= CubicMin
        /\ las = AxipropLaser(a0, Field2(s, Nkz, Len(r)), KzAxis(k0, Nkz), r,
                              off, th)
    /\ qry = <<>>
    /\ ret = <<>>
    /\ KernelIdle /\ ParIdle /\ FileIdle

RECURSIVE MinOf(_, _)
MinOf(r, n) == IF n = 1 THEN r[1] ELSE Min2(r[n], MinOf(r, n - 1))

RECURSIVE MaxOf(_, _)
MaxOf(r, n) ==
    IF n = 1 THEN r[1]
    ELSE IF r[n] > MaxOf(r, n - 1) THEN r[n] ELSE MaxOf(r, n - 1)

IsSquare(n) == \E q \in 0..n : q * q = n
Sqrt(n) == CHOOSE q \in 0..n : q * q = n

IsNode(r, rp) == \E i \in 1..Len(r) : r[i] = rp

\* a mutant of FillValue: fill_value='extrapolate', held at the nearest edge
FillNearestEdge(r, vals, rp) ==
    IF rp < MinOf(r, Len(r))
    THEN vals[CHOOSE i \in 1..Len(r) : r[i] = MinOf(r, Len(r))]
    ELSE vals[CHOOSE i \in 1..Len(r) : r[i] = MaxOf(r, Len(r))]

\* fill_value=0.0, bounds_error=False
FillValue(r, vals, rp) == 0

\* fu(r_p), fu = interp1d(r, u_r, kind='cubic', fill_value=0.0,
\* bounds_error=False): outside [min(r), max(r)] the fill value, at a sample
\* of r the sample's value
Interp(r, vals, rp) ==
    IF rp < MinOf(r, Len(r)) \/ rp > MaxOf(r, Len(r))
    THEN FillValue(r, vals, rp)
    ELSE vals[CHOOSE i \in 1..Len(r) : r[i] = rp]

\* E_field(x, y, z, t); a query between two samples of r is not modelled
E_field(x, y, z, tq) ==
    /\ las.made
    /\ IsSquare(x * x + y * y)
    /\ LET u_r == get_E_r(tq + las.time_offset, las.u, las.kz)
           r_p == Sqrt(x * x + y * y)
           profile == Interp(las.r, u_r.num, r_p)
       IN  /\ r_p < MinOf(las.r, Len(las.r)) \/ r_p > MaxOf(las.r, Len(las.r))
              \/ IsNode(las.r, r_p)
           /\ qry' = [x |-> x, y |-> y, z |-> z, t |-> tq, r_p |-> r_p]
           /\ ret' = [Ex |-> las.E0x * profile, Ey |-> las.E0y * profile,
                      den |-> u_r.den]
    /\ UNCHANGED <<las, kvars, pvars, fvars>>

NextLaser ==
    \E x \in QueryX, y \in QueryY, z \in QueryZ, tq \in QueryT : E_field(x, y, z, tq)

SpecLaser == InitLaser /\ [][NextLaser]_vars

OutOfDomain ==
    /\ qry # <<>>
    /\ \/ qry.r_p > MaxOf(las.r, Len(las.r))
       \/ qry.r_p < MinOf(las.r, Len(las.r))

----------------------------------------------------------------------------
(* The WarpX file writers (lines 176-216).  An axis array is kept as its
   length and its first and last values; a float is an integer here.  What is
   written is a sequence of items: one byte, one float, or a whole array. *)

Counts == {0, 1, 2, 256, 65537, 2147483647}

Axis(n, a, b) ==
    [n |-> n, first |-> IF n = 0 THEN 0 ELSE a,
     last |-> IF n = 0 THEN 0 ELSE IF n = 1 THEN a ELSE b]

Byte(v) == [kind |-> "byte", n |-> 1, a |-> v, b |-> v]
Float(v) == [kind |-> "float", n |-> 1, a |-> v, b |-> v]
Floats(ax) == [kind |-> "floats", n |-> ax.n, a |-> ax.first, b |-> ax.last]

RECURSIVE Pow256(_)
Pow256(i) == IF i = 0 THEN 1 ELSE 256 * Pow256(i - 1)

\* byte i (0-based) of n.to_bytes(4, byteorder='big')
ByteOfBig(n, i) == (n \div Pow256(3 - i)) % 256

\* byte i (0-based) of n.to_bytes(4, byteorder='little', signed=False)
ByteOf(n, i) == (n \div Pow256(i)) % 256

to_bytes4(n) == [i \in 1..4 |-> Byte(ByteOf(n, i - 1))]

\* the three writes of len(t), len(x), len(y) after the flag byte
Header(flag, a) ==
    <<Byte(flag)>> \o to_bytes4(a.t.n) \o to_bytes4(a.x.n) \o to_bytes4(a.y.n)

\* a[0] and a[-1] of an axis: both raise IndexError on an empty array
FirstLast(ax) == <<Float(ax.first), Float(ax.last)>>

\* lines 193-197
YItems(ax) ==
    IF ax.n = 1 THEN <<Float(ax.first)>> ELSE <<Float(ax.first), Float(ax.last)>>

\* write_file_unf: the items written before the function returns or raises
UnfItems(a) ==
    Header(1, a)
    \o (IF a.t.n = 0 THEN <<>>
        ELSE FirstLast(a.t)
             \o (IF a.x.n = 0 THEN <<>>
                 ELSE FirstLast(a.x)
                      \o (IF a.y.n = 0 THEN <<>>
                          ELSE YItems(a.y) \o <<a.E>>)))

\* write_file: the items written
GenItems(a) ==
    Header(0, a) \o <<Floats(a.t), Floats(a.x), Floats(a.y), a.E>>

InitFile ==
    /\ \E fn \in {"write_file_unf", "write_file"}, nt \in Counts, nx \in Counts,
          ny \in Counts :
        fin = [fn |-> fn, t |-> Axis(nt, 10, 20), x |-> Axis(nx, 30, 40),
               y |-> Axis(ny, 50, 60),
               E |-> [kind |-> "E", n |-> 1, a |-> 70, b |-> 80]]
    /\ file = <<>>
    /\ ferr = "none"
    /\ KernelIdle /\ ParIdle /\ LaserIdle

write_file_unf ==
    /\ fin.fn = "write_file_unf"
    /\ ferr = "none"
    /\ file' = UnfItems(fin)
    /\ ferr' = IF fin.t.n = 0 \/ fin.x.n = 0 \/ fin.y.n = 0
               THEN "IndexError" ELSE "ok"
    /\ UNCHANGED <<fin, kvars, pvars, lvars>>

write_file ==
    /\ fin.fn = "write_file"
    /\ ferr = "none"
    /\ file' = GenItems(fin)
    /\ ferr' = "ok"
    /\ UNCHANGED <<fin, kvars, pvars, lvars>>

NextFile == write_file_unf \/ write_file

SpecFile == InitFile /\ [][NextFile]_vars

\* an unsigned 32-bit little-endian integer read back from four byte items
Decode4(items, from) ==
    items[from].a + 256 * items[from + 1].a + 65536 * items[from + 2].a
      + 16777216 * items[from + 3].a

HeaderLen == 13

AfterHeader(items) == SubSeq(items, HeaderLen + 1, Len(items))

\* the 13-byte header: flag, then len(t), len(x), len(y)
HeaderRight ==
    /\ Len(file) >= HeaderLen
    /\ \A i \in 1..HeaderLen : file[i].kind = "byte" /\ file[i].a \in 0..255
    /\ file[1].a = (IF fin.fn = "write_file_unf" THEN 1 ELSE 0)
    /\ Decode4(file, 2) = fin.t.n
    /\ Decode4(file, 6) = fin.x.n
    /\ Decode4(file, 10) = fin.y.n

\* the sections after the header
SectionsRight ==
    /\ ferr = "ok"
    /\ AfterHeader(file) =
         IF fin.fn = "write_file_unf"
         THEN <<Float(fin.t.first), Float(fin.t.last), Float(fin.x.first),
                Float(fin.x.last), Float(fin.y.first)>>
              \o (IF fin.y.n # 1 THEN <<Float(fin.y.last)>> ELSE <<>>)
              \o <<fin.E>>
         ELSE <<Floats(fin.t), Floats(fin.x), Floats(fin.y), fin.E>>

NoEmptyAxis == fin.t.n > 0 /\ fin.x.n > 0 /\ fin.y.n > 0

=============================================================================
